---- MODULE Spec2Model ----
(***************************************************************************)
(* Model of the multi-provider streaming client:                           *)
(*   services/geminiService (streamGemini, streamOpenAI,                   *)
(*   streamChatResponse), types (Role, AIProvider, DEFAULT_PROVIDERS) and  *)
(*   the chat part of App.tsx (handleSendChat and the UI handlers).        *)
(*                                                                         *)
(* Texts are sequences of one-character strings, so that split, trim,      *)
(* startsWith, replace and the carry-over buffer act on characters.  The   *)
(* fixed literals of error messages are kept as single pieces.  An         *)
(* optional value (x?: T) is a sequence of length 0 (undefined) or 1.      *)
(***************************************************************************)
EXTENDS Integers, Sequences, FiniteSets, TLC

(* ------------------------------ bounds -------------------------------- *)
\* lines of a streamed HTTP response body
MaxLines == 2
\* largest size of a short read of the response body
MaxRead == 3
\* chunks yielded by one SDK stream
MaxChunks == 3
\* turns of the history handed to the adapter by the direct caller
MaxHistory == 2
\* sends accepted by the App in one behaviour
MaxSends == 2
\* images attached to one message in the App
MaxAttach == 1
MaxPersisted == 2

(* --------------------------- text helpers ----------------------------- *)
None == <<>>
Some(x) == <<x>>

\* characters String.prototype.trim removes (those that occur in the model)
Whitespace == {" ", "\t", "\r", "\n"}

RECURSIVE TrimStart(_)
TrimStart(s) ==
  IF s # <<>> /\ Head(s) \in Whitespace THEN TrimStart(Tail(s)) ELSE s

RECURSIVE TrimEnd(_)
TrimEnd(s) ==
  IF s # <<>> /\ s[Len(s)] \in Whitespace
  THEN TrimEnd(SubSeq(s, 1, Len(s) - 1)) ELSE s

Trim(s) == TrimEnd(TrimStart(s))

StartsWith(s, p) == Len(s) >= Len(p) /\ SubSeq(s, 1, Len(p)) = p

EndsWith(s, p) ==
  Len(s) >= Len(p) /\ SubSeq(s, Len(s) - Len(p) + 1, Len(s)) = p

\* String.prototype.indexOf, 1-based; 0 when p does not occur in s
IndexOf(s, p) ==
  LET hits == {i \in 1..(Len(s) - Len(p) + 1) : SubSeq(s, i, i + Len(p) - 1) = p}
  IN IF hits = {} THEN 0 ELSE CHOOSE i \in hits : \A j \in hits : i <= j

Contains(s, p) == p = <<>> \/ IndexOf(s, p) > 0

\* String.prototype.replace with a string pattern: the first occurrence only
ReplaceFirst(s, p, r) ==
  LET i == IndexOf(s, p)
  IN IF i = 0 THEN s
     ELSE SubSeq(s, 1, i - 1) \o r \o SubSeq(s, i + Len(p), Len(s))

\* String.prototype.split('\n'): always at least one piece
RECURSIVE SplitNewline(_)
SplitNewline(s) ==
  LET i == IndexOf(s, <<"\n">>)
  IN IF i = 0 THEN <<s>>
     ELSE <<SubSeq(s, 1, i - 1)>> \o SplitNewline(SubSeq(s, i + 1, Len(s)))

RECURSIVE Flatten(_)
Flatten(ss) == IF ss = <<>> THEN <<>> ELSE Head(ss) \o Flatten(Tail(ss))

Front(s) == SubSeq(s, 1, Len(s) - 1)
Last(s) == s[Len(s)]

RECURSIVE Digits(_)
Digits(n) ==
  LET d == <<"0", "1", "2", "3", "4", "5", "6", "7", "8", "9">>[(n % 10) + 1]
  IN IF n < 10 THEN <<d>> ELSE Digits(n \div 10) \o <<d>>

RECURSIVE SeqsUpTo(_, _)
SeqsUpTo(S, n) ==
  IF n = 0 THEN {<<>>}
  ELSE LET shorter == SeqsUpTo(S, n - 1)
       IN shorter \cup {Append(s, x) : s \in shorter, x \in S}

(* ------------------------------ types --------------------------------- *)
Role == [USER |-> "user", MODEL |-> "model", SYSTEM |-> "system"]

TextHi == <<"H", "i">>
TextThere == <<" ", "t", "h", "e", "r", "e">>
TextHiThere == <<"H", "i", " ", "t", "h", "e", "r", "e">>
TextHiThereBang == <<"H", "i", " ", "t", "h", "e", "r", "e", "!">>

UrlDeepseek == <<"https://api.deepseek.com">>
UrlMoonshot == <<"https://api.moonshot.cn/v1">>
KeyText == <<"s", "k">>

DEFAULT_PROVIDERS ==
  << [id |-> "gemini-flash", type |-> "gemini", baseUrl |-> None,
      apiKey |-> None, modelId |-> "gemini-2.5-flash", isSystem |-> TRUE],
     [id |-> "gemini-pro", type |-> "gemini", baseUrl |-> None,
      apiKey |-> None, modelId |-> "gemini-3-pro-preview", isSystem |-> TRUE],
     [id |-> "deepseek-chat", type |-> "openai", baseUrl |-> Some(UrlDeepseek),
      apiKey |-> None, modelId |-> "deepseek-chat", isSystem |-> FALSE],
     [id |-> "kimi-8k", type |-> "openai", baseUrl |-> Some(UrlMoonshot),
      apiKey |-> None, modelId |-> "moonshot-v1-8k", isSystem |-> FALSE] >>

\* JavaScript truthiness of an optional string
Truthy(opt) == opt # None /\ opt[1] # <<>>

\* x || '' for an optional string
OrEmpty(opt) == IF Truthy(opt) THEN opt[1] ELSE <<>>

NoProvider ==
  [id |-> "", type |-> "", baseUrl |-> None, apiKey |-> None,
   modelId |-> "", isSystem |-> FALSE]

\* localStorage.getItem('ai_providers'): null, text that is not the JSON of a
\* provider array, or the JSON of a provider array
NoItem == [kind |-> "none", items |-> <<>>]
CorruptItem == [kind |-> "corrupt", items |-> <<>>]
Stored(list) == [kind |-> "array", items |-> list]

NoArgs ==
  [history |-> <<>>, newMessage |-> <<>>, newImages |-> <<>>,
   provider |-> NoProvider]

(* ----------------------------- variables ------------------------------ *)
VARIABLES
  pc,             \* position of the streamChatResponse call in flight
  args,           \* its arguments
  envApiKey,      \* process.env.API_KEY, optional string
  sdkClients,     \* number of GoogleGenAI clients the call has constructed
  sdkChats,       \* its ai.chats.create calls: [model, history]
  sdkSent,        \* its chat.sendMessageStream calls: the message argument
  chunksReceived, \* text fields of the chunks the SDK stream has yielded
  responseText,   \* streamGemini's accumulator
  fetchCalls,     \* its fetch calls: [url, method, authorization, body]
  response,       \* the HTTP response, once fetch has resolved
  wire,           \* response body text not yet handed out by reader.read()
  received,       \* the text reader.read() has returned so far
  buffer,         \* streamOpenAI's carry-over buffer
  fullText,       \* streamOpenAI's accumulator
  done,           \* streamOpenAI's loop flag
  splitMidLine,   \* history: some read ended inside a `data: ` line
  onChunkCalls,   \* arguments of the onChunk calls, in call order
  outcome,        \* how the promise settled, with value or error message
  providers,      \* App state: the provider list
  activeProviderId,
  mode,           \* App state: "CHAT", "IMAGE_GEN" or "SETTINGS"
  editingProvider, \* App state: optional provider being edited
  messages,       \* App state: the conversation
  input,          \* App state: the text box
  isLoading,      \* App state
  attachedImages, \* App state: base64 images waiting to be sent
  aiMsgId,        \* id of the assistant entry of the send in flight
  clock,          \* Date.now()
  storage,        \* localStorage item 'ai_providers'
  mounted         \* the effects of the first render have run

adapterVars ==
  <<pc, args, sdkClients, sdkChats, sdkSent, chunksReceived, responseText,
    fetchCalls, response, wire, received, buffer, fullText, done,
    splitMidLine, onChunkCalls, outcome>>

appVars ==
  <<providers, activeProviderId, mode, editingProvider, input, isLoading,
    attachedImages, aiMsgId, clock, storage, mounted>>

loadVars == <<storage, mounted>>

vars == <<adapterVars, envApiKey, appVars, messages>>

NoResponse ==
  [status |-> 0, hasBody |-> FALSE, lines |-> <<>>, open |-> FALSE]

Pending == [state |-> "pending", value |-> <<>>, message |-> <<>>]
Resolved(v) == [state |-> "resolved", value |-> v, message |-> <<>>]
Rejected(m) == [state |-> "rejected", value |-> <<>>, message |-> m]


(* ------------------- streamGemini: request building ------------------- *)
TextPart(t) == [kind |-> "text", text |-> t, mimeType |-> "", data |-> ""]

InlineData(img) ==
  [kind |-> "inlineData", text |-> <<>>, mimeType |-> "image/jpeg", data |-> img]

ImageParts(images) == [i \in 1..Len(images) |-> InlineData(images[i])]

GeminiRole(msg) == IF msg.role = Role.USER THEN "user" ELSE "model"

\* faulty variant, for comparison: the text part is pushed after the image parts
GeminiPartsTextLastMut(msg) ==
  IF msg.images # None /\ Len(msg.images[1]) > 0
  THEN ImageParts(msg.images[1]) \o <<TextPart(msg.text)>>
  ELSE <<TextPart(msg.text)>>

GeminiParts(msg) ==
  IF msg.images # None /\ Len(msg.images[1]) > 0
  THEN <<TextPart(msg.text)>> \o ImageParts(msg.images[1])
  ELSE <<TextPart(msg.text)>>

\* history.slice(0, -1)
SliceLast(history) == SubSeq(history, 1, Len(history) - 1)

PrevHistory(history) ==
  LET h == SliceLast(history)
  IN [i \in 1..Len(h) |-> [role |-> GeminiRole(h[i]), parts |-> GeminiParts(h[i])]]

NewParts(newMessage, newImages) ==
  <<TextPart(newMessage)>> \o ImageParts(newImages)

\* message: parts.length === 1 ? parts[0].text : parts
SentMessage(parts) ==
  IF Len(parts) = 1
  THEN [text |-> Some(parts[1].text), parts |-> <<>>]
  ELSE [text |-> None, parts |-> parts]

GeminiSystemInstruction ==
  <<"You are a helpful, professional AI assistant in a studio application. Use Markdown for formatting.">>

\* faulty variant, for comparison: the chunk text replaces the accumulator
GeminiAccumulateReplaceMut(acc, text) == text

\* responseText += c.text
GeminiAccumulate(acc, text) == acc \o text

(* ------------------- streamOpenAI: request building ------------------- *)
\* faulty variant, for comparison: only the key is required
ConfigMissingKeyOnlyMut(provider) == ~Truthy(provider.apiKey)

ConfigMissing(provider) ==
  ~Truthy(provider.apiKey) \/ ~Truthy(provider.baseUrl)

ConfigErrorMessage == <<"API Key or Base URL missing for custom provider.">>

OpenAIRole(msg) == IF msg.role = Role.MODEL THEN "assistant" ELSE "user"

ApiMessages(history, newMessage) ==
  Append([i \in 1..Len(history) |->
            [role |-> OpenAIRole(history[i]), content |-> history[i].text]],
         [role |-> "user", content |-> newMessage])

OpenAISystemPrompt ==
  <<"You are a helpful, professional AI assistant. Output in Markdown.">>

MessagesWithSystem(history, newMessage) ==
  <<[role |-> "system", content |-> OpenAISystemPrompt]>>
    \o ApiMessages(history, newMessage)

MaxTokens == 4000

\* `${x}` for an optional string
Interpolate(opt) == IF opt = None THEN <<"undefined">> ELSE opt[1]

FetchRequest(history, newMessage, provider) ==
  [url |-> Interpolate(provider.baseUrl) \o <<"/chat/completions">>,
   method |-> "POST",
   authorization |-> <<"Bearer ">> \o Interpolate(provider.apiKey),
   body |-> [model |-> provider.modelId,
             messages |-> MessagesWithSystem(history, newMessage),
             stream |-> TRUE,
             temperature |-> "0.7",
             max_tokens |-> MaxTokens]]

\* response.ok
ResponseOk(status) == status >= 200 /\ status <= 299

\* faulty variant, for comparison: the body text is left out of the message
ProviderErrorMessageNoBodyMut(status, err) ==
  <<"Provider Error (">> \o Digits(status) \o <<")">>

\* `Provider Error (${response.status}): ${err}`
ProviderErrorMessage(status, err) ==
  <<"Provider Error (">> \o Digits(status) \o <<"): ">> \o err

NoBodyMessage == <<"No response body">>

(* --------------------- streamOpenAI: line parsing --------------------- *)
DataPrefix == <<"d", "a", "t", "a", ":", " ">>
DoneLine == <<"d", "a", "t", "a", ":", " ", "[", "D", "O", "N", "E", "]">>

JsonContentOpen ==
  <<"{", "\"", "c", "h", "o", "i", "c", "e", "s", "\"", ":", "[", "{", "\"",
    "d", "e", "l", "t", "a", "\"", ":", "{", "\"", "c", "o", "n", "t", "e",
    "n", "t", "\"", ":", "\"">>
JsonContentClose == <<"\"", "}", "}", "]", "}">>
JsonNoContent ==
  <<"{", "\"", "c", "h", "o", "i", "c", "e", "s", "\"", ":", "[", "{", "\"",
    "d", "e", "l", "t", "a", "\"", ":", "{", "}", "}", "]", "}">>
JsonNull == <<"n", "u", "l", "l">>

\* JSON.parse on the payload texts a stream of this model can carry:
\*   {"choices":[{"delta":{"content":"<plain characters>"}}]}
\*   {"choices":[{"delta":{}}]}      null      anything else: SyntaxError.
\* ok: parsed; isNull: the value is null; content: choices[0].delta.content
JSONParse(s) ==
  LET t == Trim(s)
      inner == SubSeq(t, Len(JsonContentOpen) + 1, Len(t) - Len(JsonContentClose))
  IN IF /\ Len(t) >= Len(JsonContentOpen) + Len(JsonContentClose)
        /\ StartsWith(t, JsonContentOpen)
        /\ EndsWith(t, JsonContentClose)
        /\ \A i \in 1..Len(inner) : inner[i] \notin {"\"", "\\", "\n", "\r", "\t"}
     THEN [ok |-> TRUE, isNull |-> FALSE, content |-> Some(inner)]
     ELSE IF t = JsonNoContent
     THEN [ok |-> TRUE, isNull |-> FALSE, content |-> None]
     ELSE IF t = JsonNull
     THEN [ok |-> TRUE, isNull |-> TRUE, content |-> None]
     ELSE [ok |-> FALSE, isNull |-> FALSE, content |-> None]

\* faulty variant, for comparison: a payload that does not parse is passed on as raw text
DeltaContentRawMut(trimmed) ==
  LET payload == ReplaceFirst(trimmed, DataPrefix, <<>>)
      json == JSONParse(payload)
  IN IF ~json.ok THEN payload
     ELSE IF json.isNull THEN <<>> ELSE OrEmpty(json.content)

\* the try block of the line loop: the content to append, '' when the parse
\* or the property access throws (the catch swallows it) or nothing is carried
DeltaContent(trimmed) ==
  LET json == JSONParse(ReplaceFirst(trimmed, DataPrefix, <<>>))
  IN IF ~json.ok \/ json.isNull THEN <<>> ELSE OrEmpty(json.content)

\* trimmed.startsWith('data: ') && trimmed !== 'data: [DONE]'
IsDataLine(trimmed) == StartsWith(trimmed, DataPrefix) /\ trimmed # DoneLine

\* faulty variant, for comparison: the delta replaces the accumulator
AccumulateReplaceMut(acc, content) == content

\* fullText += content
Accumulate(acc, content) == acc \o content

\* faulty variant, for comparison: onChunk is called for every data line, with or without content
ProcessLineAlwaysMut(st, line) ==
  LET trimmed == Trim(line)
      content == DeltaContent(trimmed)
  IN IF IsDataLine(trimmed)
     THEN [fullText |-> Accumulate(st.fullText, content),
           calls |-> Append(st.calls, Accumulate(st.fullText, content))]
     ELSE st

\* one iteration of `for (const line of lines)`; st = [fullText, calls]
ProcessLine(st, line) ==
  LET trimmed == Trim(line)
      content == DeltaContent(trimmed)
  IN IF IsDataLine(trimmed) /\ content # <<>>
     THEN [fullText |-> Accumulate(st.fullText, content),
           calls |-> Append(st.calls, Accumulate(st.fullText, content))]
     ELSE st

RECURSIVE ProcessLines(_, _)
ProcessLines(st, lines) ==
  IF lines = <<>> THEN st
  ELSE ProcessLines(ProcessLine(st, Head(lines)), Tail(lines))

\* faulty variant, for comparison: the partial line is dropped instead of carried over
RetainedBufferDropMut(lines) == <<>>

\* buffer = lines.pop() || ''
RetainedBuffer(lines) == Last(lines)

\* faulty variant, for comparison: the unterminated fragment is processed with the complete lines
CompleteLinesAllMut(lines) == lines

\* what `lines` holds after lines.pop()
CompleteLines(lines) == Front(lines)

\* the body of `if (value) { ... }` for one decoded chunk
Feed(buf, acc, chunk) ==
  LET lines == SplitNewline(buf \o chunk)
      st == ProcessLines([fullText |-> acc, calls |-> <<>>], CompleteLines(lines))
  IN [buffer |-> RetainedBuffer(lines), fullText |-> st.fullText, calls |-> st.calls]


(* ------------------------- the onChunk callback ----------------------- *)
\* faulty variant, for comparison: every assistant entry receives the text
SetTextEveryModelMut(msgs, id, text) ==
  [i \in 1..Len(msgs) |->
     IF msgs[i].role = Role.MODEL THEN [msgs[i] EXCEPT !.text = text] ELSE msgs[i]]

\* prev.map(msg => msg.id === id ? { ...msg, text } : msg)
SetText(msgs, id, text) ==
  [i \in 1..Len(msgs) |->
     IF msgs[i].id = id THEN [msgs[i] EXCEPT !.text = text] ELSE msgs[i]]

\* the adapter calls onChunk once per element of texts, in order
OnChunk(texts) ==
  /\ onChunkCalls' = onChunkCalls \o texts
  /\ messages' = IF texts = <<>> THEN messages
                 ELSE SetText(messages, aiMsgId, Last(texts))

(* --------------------------- streamChatResponse ----------------------- *)
\* faulty variant, for comparison: everything that is not 'openai' goes to the SDK
IsGeminiNotOpenAIMut(provider) == provider.type # "openai"

IsGemini(provider) == provider.type = "gemini"

ApiKeyMissingMessage == <<"System API_KEY missing.">>

ResetCall ==
  /\ chunksReceived' = <<>>
  /\ responseText' = <<>>
  /\ response' = NoResponse
  /\ wire' = <<>>
  /\ received' = <<>>
  /\ buffer' = <<>>
  /\ fullText' = <<>>
  /\ done' = FALSE
  /\ splitMidLine' = FALSE
  /\ onChunkCalls' = <<>>

\* streamGemini up to its first await
StreamGeminiStart(history, newMessage, newImages, modelName) ==
  /\ IF ~Truthy(envApiKey)
     THEN /\ pc' = "settled"
          /\ outcome' = Rejected(ApiKeyMissingMessage)
          /\ UNCHANGED <<sdkClients, sdkChats, sdkSent>>
     ELSE /\ sdkClients' = sdkClients + 1
          /\ sdkChats' = Append(sdkChats,
                [model |-> modelName, history |-> PrevHistory(history),
                 temperature |-> "0.7",
                 systemInstruction |-> GeminiSystemInstruction])
          /\ sdkSent' = Append(sdkSent, SentMessage(NewParts(newMessage, newImages)))
          /\ pc' = "gemini_send"
          /\ outcome' = Pending
  /\ UNCHANGED fetchCalls

\* streamOpenAI up to its first await
StreamOpenAIStart(history, newMessage, provider) ==
  /\ IF ConfigMissing(provider)
     THEN /\ pc' = "settled"
          /\ outcome' = Rejected(ConfigErrorMessage)
          /\ UNCHANGED fetchCalls
     ELSE /\ fetchCalls' = Append(fetchCalls, FetchRequest(history, newMessage, provider))
          /\ pc' = "openai_fetch"
          /\ outcome' = Pending
  /\ UNCHANGED <<sdkClients, sdkChats, sdkSent>>

StreamChatResponse(history, newMessage, newImages, provider) ==
  /\ args' = [history |-> history, newMessage |-> newMessage,
              newImages |-> newImages, provider |-> provider]
  /\ ResetCall
  /\ IF IsGemini(provider)
     THEN StreamGeminiStart(history, newMessage, newImages, provider.modelId)
     ELSE StreamOpenAIStart(history, newMessage, provider)

(* ------------------------ streamGemini: streaming --------------------- *)
TransportErrorMessage == <<"Failed to fetch">>

openaiVars ==
  <<fetchCalls, response, wire, received, buffer, fullText, done, splitMidLine>>
sdkVars == <<sdkClients, sdkChats, sdkSent>>

\* chat.sendMessageStream resolves with the stream
SendMessageStreamResolve ==
  /\ pc = "gemini_send"
  /\ pc' = "gemini_stream"
  /\ UNCHANGED <<args, sdkVars, chunksReceived, responseText, openaiVars,
                 onChunkCalls, outcome, envApiKey, appVars, messages>>

\* chat.sendMessageStream rejects, or the iteration throws: catch, rethrow
GeminiTransportError ==
  /\ pc \in {"gemini_send", "gemini_stream"}
  /\ pc' = "settled"
  /\ outcome' = Rejected(TransportErrorMessage)
  /\ UNCHANGED <<args, sdkVars, chunksReceived, responseText, openaiVars,
                 onChunkCalls, envApiKey, appVars, messages>>

\* one iteration of `for await (const chunk of streamResult)`
GeminiChunk(Texts, limit) ==
  /\ pc = "gemini_stream"
  /\ Len(chunksReceived) < limit
  /\ \E c \in Texts :
       /\ chunksReceived' = Append(chunksReceived, c)
       /\ IF Truthy(c)
          THEN /\ responseText' = GeminiAccumulate(responseText, c[1])
               /\ OnChunk(<<GeminiAccumulate(responseText, c[1])>>)
          ELSE /\ UNCHANGED responseText
               /\ OnChunk(<<>>)
  /\ UNCHANGED <<pc, args, sdkVars, openaiVars, outcome, envApiKey, appVars>>

\* the stream is exhausted: return responseText
GeminiStreamEnd ==
  /\ pc = "gemini_stream"
  /\ pc' = "settled"
  /\ outcome' = Resolved(responseText)
  /\ UNCHANGED <<args, sdkVars, chunksReceived, responseText, openaiVars,
                 onChunkCalls, envApiKey, appVars, messages>>

(* ------------------------ streamOpenAI: streaming --------------------- *)
\* the text of a response body made of lines; open: the last line has no
\* terminating newline
RECURSIVE JoinLines(_)
JoinLines(lines) ==
  IF lines = <<>> THEN <<>>
  ELSE IF Len(lines) = 1 THEN lines[1]
  ELSE Head(lines) \o <<"\n">> \o JoinLines(Tail(lines))

BodyText(r) ==
  IF r.lines = <<>> THEN <<>>
  ELSE JoinLines(r.lines) \o (IF r.open THEN <<>> ELSE <<"\n">>)

\* fetch resolves with a response
FetchRespond(Responses) ==
  /\ pc = "openai_fetch"
  /\ \E r \in Responses :
       /\ response' = r
       /\ IF ~ResponseOk(r.status)
          THEN /\ pc' = "openai_errtext"
               /\ UNCHANGED <<wire, outcome>>
          ELSE IF ~r.hasBody
          THEN /\ pc' = "settled"
               /\ outcome' = Rejected(NoBodyMessage)
               /\ UNCHANGED wire
          ELSE /\ pc' = "openai_read"
               /\ wire' = BodyText(r)
               /\ UNCHANGED outcome
  /\ UNCHANGED <<args, sdkVars, chunksReceived, responseText, fetchCalls,
                 received, buffer, fullText, done, splitMidLine, onChunkCalls,
                 envApiKey, appVars, messages>>

\* fetch rejects, or reader.read() rejects: catch, rethrow; the locals of the
\* read loop go out of scope with the frame
OpenAITransportError ==
  /\ pc \in {"openai_fetch", "openai_read"}
  /\ pc' = "settled"
  /\ outcome' = Rejected(TransportErrorMessage)
  /\ wire' = <<>>
  /\ received' = <<>>
  /\ buffer' = <<>>
  /\ fullText' = <<>>
  /\ UNCHANGED <<args, sdkVars, chunksReceived, responseText, fetchCalls,
                 response, done, splitMidLine, onChunkCalls, envApiKey,
                 appVars, messages>>

\* response.text() resolves; throw new Error(`Provider Error ...`)
ErrorBodyRead ==
  /\ pc = "openai_errtext"
  /\ pc' = "settled"
  /\ outcome' = Rejected(ProviderErrorMessage(response.status, BodyText(response)))
  /\ UNCHANGED <<args, sdkVars, chunksReceived, responseText, openaiVars,
                 onChunkCalls, envApiKey, appVars, messages>>

\* sizes of the next read: a short read, or all that is left but a short tail
ReadSizes(left) ==
  {n \in 1..left : n <= MaxRead \/ left - n <= MaxRead}

\* reader.read() resolves with { value, done: false }; whole: the transport
\* delivers all that is left in one read
ReadChunk(whole) ==
  /\ pc = "openai_read"
  /\ wire # <<>>
  /\ \E n \in (IF whole THEN {Len(wire)} ELSE ReadSizes(Len(wire))) :
       LET value == SubSeq(wire, 1, n)
           fed == Feed(buffer, fullText, value)
       IN /\ wire' = SubSeq(wire, n + 1, Len(wire))
          /\ received' = received \o value
          /\ done' = FALSE
          /\ buffer' = fed.buffer
          /\ fullText' = fed.fullText
          /\ splitMidLine' = (splitMidLine \/ StartsWith(fed.buffer, DataPrefix))
          /\ OnChunk(fed.calls)
  /\ UNCHANGED <<pc, args, sdkVars, chunksReceived, responseText, fetchCalls,
                 response, outcome, envApiKey, appVars>>

\* reader.read() resolves with { value: undefined, done: true }
ReadDone ==
  /\ pc = "openai_read"
  /\ wire = <<>>
  /\ done' = TRUE
  /\ pc' = "settled"
  /\ outcome' = Resolved(fullText)
  /\ UNCHANGED <<args, sdkVars, chunksReceived, responseText, fetchCalls,
                 response, wire, received, buffer, fullText, splitMidLine,
                 onChunkCalls, envApiKey, appVars, messages>>


(* ----------------------- construction and callers --------------------- *)
\* the component after its first render: every useState at its initial value
Constructed ==
  /\ mounted = FALSE
  /\ pc = "idle"
  /\ args = NoArgs
  /\ envApiKey \in {None, Some(KeyText)}
  /\ sdkClients = 0
  /\ sdkChats = <<>>
  /\ sdkSent = <<>>
  /\ chunksReceived = <<>>
  /\ responseText = <<>>
  /\ fetchCalls = <<>>
  /\ response = NoResponse
  /\ wire = <<>>
  /\ received = <<>>
  /\ buffer = <<>>
  /\ fullText = <<>>
  /\ done = FALSE
  /\ splitMidLine = FALSE
  /\ onChunkCalls = <<>>
  /\ outcome = Pending
  /\ providers = DEFAULT_PROVIDERS
  /\ activeProviderId = DEFAULT_PROVIDERS[1].id
  /\ mode = "CHAT"
  /\ editingProvider = None
  /\ messages = <<>>
  /\ input = <<>>
  /\ isLoading = FALSE
  /\ attachedImages = <<>>
  /\ aiMsgId = 0
  /\ clock = 1

\* nothing has been persisted yet
Init == Constructed /\ storage = NoItem

\* a direct call of streamChatResponse, with a recording callback
Call(Histories, Texts, ImageLists, Providers) ==
  /\ pc = "idle"
  /\ \E h \in Histories, m \in Texts, imgs \in ImageLists, p \in Providers :
       StreamChatResponse(h, m, imgs, p)
  /\ UNCHANGED <<envApiKey, appVars, messages>>

(* ------------------------------ inputs -------------------------------- *)
Turn(role, text, images) ==
  [id |-> 0, role |-> role, text |-> text, images |-> images, isError |-> FALSE]

ImageOptions == {None, Some(<<>>), Some(<<"imgA">>), Some(<<"imgB", "imgA">>)}

Turns ==
  {Turn(Role.USER, TextHi, im) : im \in ImageOptions}
    \cup {Turn(Role.MODEL, TextHiThere, im) : im \in ImageOptions}
    \cup {Turn(Role.SYSTEM, <<>>, im) : im \in ImageOptions}

Histories == SeqsUpTo(Turns, MaxHistory)

NewImageLists == {<<>>, <<"imgA">>, <<"imgB", "imgA">>}

WithKey(p, key) == [p EXCEPT !.apiKey = key]

CallProviders ==
  {DEFAULT_PROVIDERS[1],
   DEFAULT_PROVIDERS[3],
   WithKey(DEFAULT_PROVIDERS[3], Some(<<>>)),
   WithKey(DEFAULT_PROVIDERS[3], Some(KeyText)),
   [WithKey(DEFAULT_PROVIDERS[4], Some(KeyText)) EXCEPT !.baseUrl = None],
   [WithKey(DEFAULT_PROVIDERS[4], Some(KeyText)) EXCEPT !.baseUrl = Some(<<>>)],
   [WithKey(DEFAULT_PROVIDERS[4], Some(KeyText)) EXCEPT !.type = "custom"]}

DataLine(content) == DataPrefix \o JsonContentOpen \o content \o JsonContentClose

HiLine == DataLine(TextHi)
ThereLineCR == DataLine(TextThere) \o <<"\r">>
BadLine == DataPrefix \o <<"{", "b", "a", "d">>
NoContentLine == DataPrefix \o JsonNoContent
NullLine == DataPrefix \o JsonNull
EmptyLine == <<>>

LineTemplates == {HiLine, ThereLineCR, DoneLine, BadLine, EmptyLine}

OkResponse(lines, open) ==
  [status |-> 200, hasBody |-> TRUE, lines |-> lines, open |-> open]

StreamResponses ==
  ({OkResponse(ls, o) : ls \in SeqsUpTo(LineTemplates, MaxLines), o \in BOOLEAN}
     \ {OkResponse(<<>>, TRUE)})
    \cup {OkResponse(<<HiLine, DataLine(TextThere), DoneLine>>, FALSE),
          OkResponse(<<NoContentLine, HiLine>>, FALSE),
          OkResponse(<<NullLine, HiLine>>, FALSE)}

ErrorText == <<"d", "e", "n", "i", "e", "d">>

ErrorResponses ==
  {[status |-> st, hasBody |-> TRUE, lines |-> ls, open |-> TRUE] :
     st \in {401, 500}, ls \in {<<>>, <<ErrorText>>}}

NoBodyResponse == [status |-> 200, hasBody |-> FALSE, lines |-> <<>>, open |-> FALSE]

\* the responses of the specifications that vary the call, not the stream
FewResponses ==
  {OkResponse(<<HiLine, DoneLine>>, FALSE), NoBodyResponse,
   [status |-> 401, hasBody |-> TRUE, lines |-> <<ErrorText>>, open |-> TRUE]}

\* the responses of the App's specification
AppResponses ==
  {OkResponse(<<HiLine, DoneLine>>, FALSE),
   [status |-> 401, hasBody |-> TRUE, lines |-> <<ErrorText>>, open |-> TRUE]}

ChunkTexts ==
  {None, Some(<<>>), Some(TextHi), Some(TextHiThere), Some(TextHiThereBang)}

(* --------------------------- specifications --------------------------- *)
\* streamChatResponse called with any arguments; few transport behaviours
Next ==
  \/ Call(Histories, {TextHi}, NewImageLists, CallProviders)
  \/ SendMessageStreamResolve
  \/ GeminiTransportError
  \/ GeminiChunk({Some(TextHi)}, 1)
  \/ GeminiStreamEnd
  \/ FetchRespond(FewResponses)
  \/ OpenAITransportError
  \/ ErrorBodyRead
  \/ ReadChunk(TRUE)
  \/ ReadDone

Spec == Init /\ [][Next]_vars

\* streamChatResponse called with few arguments; any transport behaviour
NextStream ==
  \/ Call({<<Turn(Role.USER, TextHi, None)>>}, {TextHi}, {<<>>},
          {DEFAULT_PROVIDERS[1], WithKey(DEFAULT_PROVIDERS[3], Some(KeyText))})
  \/ SendMessageStreamResolve
  \/ GeminiTransportError
  \/ GeminiChunk(ChunkTexts, MaxChunks)
  \/ GeminiStreamEnd
  \/ FetchRespond(StreamResponses \cup ErrorResponses \cup {NoBodyResponse})
  \/ OpenAITransportError
  \/ ErrorBodyRead
  \/ ReadChunk(FALSE)
  \/ ReadDone

InitStream == Init /\ Truthy(envApiKey)

SpecStream == InitStream /\ [][NextStream]_vars


(* --------------------------------- App -------------------------------- *)
\* providers.find(p => p.id === activeProviderId) || providers[0]
ActiveProvider ==
  LET hits == {i \in 1..Len(providers) : providers[i].id = activeProviderId}
  IN IF hits = {} THEN providers[1]
     ELSE providers[CHOOSE i \in hits : \A j \in hits : i <= j]

appStreamVars == <<adapterVars, envApiKey, messages>>

\* merged.findIndex(m => m.id === id), 0 for -1
FindIndex(list, id) ==
  LET hits == {i \in 1..Len(list) : list[i].id = id}
  IN IF hits = {} THEN 0 ELSE CHOOSE i \in hits : \A j \in hits : i <= j

\* faulty variant, for comparison: a persisted entry replaces any entry with its id
MergeOneReplaceSystemMut(merged, p) ==
  LET idx == FindIndex(merged, p.id)
  IN IF idx = 0 THEN Append(merged, p) ELSE [merged EXCEPT ![idx] = p]

\* one iteration of parsed.forEach
MergeOne(merged, p) ==
  LET idx == FindIndex(merged, p.id)
  IN IF idx = 0 THEN Append(merged, p)
     ELSE LET updated == IF ~merged[idx].isSystem
                         THEN [merged EXCEPT ![idx] = p]
                         ELSE merged
          IN IF ~updated[idx].isSystem /\ Truthy(p.apiKey)
             THEN [updated EXCEPT ![idx].apiKey = p.apiKey]
             ELSE updated

RECURSIVE Merge(_, _)
Merge(merged, parsed) ==
  IF parsed = <<>> THEN merged
  ELSE Merge(MergeOne(merged, Head(parsed)), Tail(parsed))

\* the initialization effect: what setProviders receives, or the current list
\* when nothing is saved or JSON.parse throws
LoadProviders(current, item) ==
  IF item.kind = "array" THEN Merge(DEFAULT_PROVIDERS, item.items) ELSE current

\* providers.filter(p => !p.isSystem || p.type === 'openai')
Persisted(list) == SelectSeq(list, LAMBDA p : ~p.isSystem \/ p.type = "openai")

\* the effect on [providers]
PersistProviders(item, list) ==
  IF Len(list) > 0 THEN Stored(Persisted(list)) ELSE item

\* the two effects of the first render and the render that setProviders causes
Mount ==
  /\ ~mounted
  /\ mounted' = TRUE
  /\ providers' = LoadProviders(providers, storage)
  /\ storage' = PersistProviders(storage, providers')
  /\ UNCHANGED <<appStreamVars, activeProviderId, mode, editingProvider, input,
                 isLoading, attachedImages, aiMsgId, clock>>

\* the page is reloaded while no send is in flight: the component is
\* constructed again and localStorage is kept
Reload ==
  /\ mounted
  /\ pc = "idle"
  /\ mounted' = FALSE
  /\ providers' = DEFAULT_PROVIDERS
  /\ activeProviderId' = DEFAULT_PROVIDERS[1].id
  /\ mode' = "CHAT"
  /\ editingProvider' = None
  /\ messages' = <<>>
  /\ input' = <<>>
  /\ isLoading' = FALSE
  /\ attachedImages' = <<>>
  /\ UNCHANGED <<adapterVars, envApiKey, aiMsgId, clock, storage>>

\* textarea onChange
SetInput(Texts) ==
  /\ mounted
  /\ mode = "CHAT"
  /\ \E t \in Texts : input' = t
  /\ UNCHANGED <<appStreamVars, loadVars, providers, activeProviderId, mode,
                 editingProvider, isLoading, attachedImages, aiMsgId, clock>>

\* the file input is disabled while the active provider is of type 'openai'
HandleFileUpload(Images) ==
  /\ mounted
  /\ mode = "CHAT"
  /\ ActiveProvider.type # "openai"
  /\ Len(attachedImages) < MaxAttach
  /\ \E img \in Images : attachedImages' = Append(attachedImages, img)
  /\ UNCHANGED <<appStreamVars, loadVars, providers, activeProviderId, mode,
                 editingProvider, input, isLoading, aiMsgId, clock>>

\* prev.filter((_, idx) => idx !== i)
RemoveAttachedImage ==
  /\ mounted
  /\ mode = "CHAT"
  /\ \E i \in 1..Len(attachedImages) :
       attachedImages' = SubSeq(attachedImages, 1, i - 1)
                           \o SubSeq(attachedImages, i + 1, Len(attachedImages))
  /\ UNCHANGED <<appStreamVars, loadVars, providers, activeProviderId, mode,
                 editingProvider, input, isLoading, aiMsgId, clock>>

\* the provider select of the chat header
SetActiveProviderId ==
  /\ mounted
  /\ mode = "CHAT"
  /\ \E i \in 1..Len(providers) : activeProviderId' = providers[i].id
  /\ UNCHANGED <<appStreamVars, loadVars, providers, mode, editingProvider, input,
                 isLoading, attachedImages, aiMsgId, clock>>

\* the sidebar buttons
SetMode(Modes) ==
  /\ mounted
  /\ \E m \in Modes : mode' = m
  /\ UNCHANGED <<appStreamVars, loadVars, providers, activeProviderId, editingProvider,
                 input, isLoading, attachedImages, aiMsgId, clock>>

\* the gear button of a provider that is not a system provider
SetEditingProvider ==
  /\ mounted
  /\ mode = "SETTINGS"
  /\ editingProvider = None
  /\ \E i \in 1..Len(providers) :
       /\ ~providers[i].isSystem
       /\ editingProvider' = Some(providers[i])
  /\ UNCHANGED <<appStreamVars, loadVars, providers, activeProviderId, mode, input,
                 isLoading, attachedImages, aiMsgId, clock>>

\* the API Key field of the edit dialog
EditApiKey(Keys) ==
  /\ mounted
  /\ mode = "SETTINGS"
  /\ editingProvider # None
  /\ \E k \in Keys : editingProvider' = Some(WithKey(editingProvider[1], Some(k)))
  /\ UNCHANGED <<appStreamVars, loadVars, providers, activeProviderId, mode, input,
                 isLoading, attachedImages, aiMsgId, clock>>

\* the cancel button of the edit dialog
CancelEdit ==
  /\ mounted
  /\ mode = "SETTINGS"
  /\ editingProvider # None
  /\ editingProvider' = None
  /\ UNCHANGED <<appStreamVars, loadVars, providers, activeProviderId, mode, input,
                 isLoading, attachedImages, aiMsgId, clock>>

SaveProvider(prev, p) ==
  IF \E i \in 1..Len(prev) : prev[i].id = p.id
  THEN [i \in 1..Len(prev) |-> IF prev[i].id = p.id THEN p ELSE prev[i]]
  ELSE Append(prev, p)

\* the save button of the edit dialog
SaveProviderSettings ==
  /\ mounted
  /\ mode = "SETTINGS"
  /\ editingProvider # None
  /\ providers' = SaveProvider(providers, editingProvider[1])
  /\ editingProvider' = None
  /\ storage' = PersistProviders(storage, providers')
  /\ UNCHANGED <<appStreamVars, mounted, activeProviderId, mode, input,
                 isLoading, attachedImages, aiMsgId, clock>>

NewUserMsg ==
  [id |-> clock, role |-> Role.USER, text |-> input,
   images |-> Some(attachedImages), isError |-> FALSE]

NewAiMsg ==
  [id |-> clock + 1, role |-> Role.MODEL, text |-> <<>>, images |-> None,
   isError |-> FALSE]

\* faulty variant, for comparison: the guard does not look at isLoading
HandleSendChatIgnoreLoadingMut ==
  /\ mounted
  /\ mode = "CHAT"
  /\ IF Trim(input) = <<>> /\ attachedImages = <<>>
     THEN UNCHANGED vars
     ELSE IF ~ActiveProvider.isSystem /\ ~Truthy(ActiveProvider.apiKey)
     THEN /\ mode' = "SETTINGS"
          /\ editingProvider' = Some(ActiveProvider)
          /\ UNCHANGED <<appStreamVars, loadVars, providers, activeProviderId, input,
                         isLoading, attachedImages, aiMsgId, clock>>
     ELSE /\ Len(messages) < 2 * MaxSends
          /\ messages' = messages \o <<NewUserMsg, NewAiMsg>>
          /\ input' = <<>>
          /\ attachedImages' = <<>>
          /\ isLoading' = TRUE
          /\ aiMsgId' = NewAiMsg.id
          /\ clock' = clock + 1
          /\ StreamChatResponse(Append(messages, NewUserMsg), NewUserMsg.text,
                                NewUserMsg.images[1], ActiveProvider)
          /\ UNCHANGED <<envApiKey, loadVars, providers, activeProviderId,
                         mode, editingProvider>>

\* Enter in the textarea or the send button. Both Date.now() reads of one send
\* return the same millisecond and the next send reads the next one (the
\* settling of the stream and the input events of the next send lie between
\* them), so a user turn may carry the id of the assistant turn before it.
HandleSendChat ==
  /\ mounted
  /\ mode = "CHAT"
  /\ IF (Trim(input) = <<>> /\ attachedImages = <<>>) \/ isLoading
     THEN UNCHANGED vars
     ELSE IF ~ActiveProvider.isSystem /\ ~Truthy(ActiveProvider.apiKey)
     THEN /\ mode' = "SETTINGS"
          /\ editingProvider' = Some(ActiveProvider)
          /\ UNCHANGED <<appStreamVars, loadVars, providers, activeProviderId, input,
                         isLoading, attachedImages, aiMsgId, clock>>
     ELSE /\ Len(messages) < 2 * MaxSends
          /\ messages' = messages \o <<NewUserMsg, NewAiMsg>>
          /\ input' = <<>>
          /\ attachedImages' = <<>>
          /\ isLoading' = TRUE
          /\ aiMsgId' = NewAiMsg.id
          /\ clock' = clock + 1
          /\ StreamChatResponse(Append(messages, NewUserMsg), NewUserMsg.text,
                                NewUserMsg.images[1], ActiveProvider)
          /\ UNCHANGED <<envApiKey, loadVars, providers, activeProviderId,
                         mode, editingProvider>>

\* stands for the literal prefix of the error text
ErrorPrefix == <<"[error] ">>
RequestFailedText == <<"[request failed]">>

\* error.message || fallback
MessageOr(message, fallback) == IF message = <<>> THEN fallback ELSE message

\* faulty variant, for comparison: the entry is flagged but keeps its partial text
SetErrorKeepTextMut(msgs, id, message) ==
  [i \in 1..Len(msgs) |->
     IF msgs[i].id = id THEN [msgs[i] EXCEPT !.isError = TRUE] ELSE msgs[i]]

SetError(msgs, id, message) ==
  [i \in 1..Len(msgs) |->
     IF msgs[i].id = id
     THEN [msgs[i] EXCEPT !.text = ErrorPrefix \o MessageOr(message, RequestFailedText),
                          !.isError = TRUE]
     ELSE msgs[i]]

\* faulty variant, for comparison: isLoading is cleared after the await, not in finally
AfterStreamNoFinallyMut ==
  /\ pc = "settled"
  /\ isLoading
  /\ messages' = IF outcome.state = "rejected"
                 THEN SetError(messages, aiMsgId, outcome.message)
                 ELSE messages
  /\ isLoading' = (outcome.state = "rejected")
  /\ pc' = "idle"
  /\ args' = NoArgs
  /\ sdkClients' = 0
  /\ sdkChats' = <<>>
  /\ sdkSent' = <<>>
  /\ chunksReceived' = <<>>
  /\ responseText' = <<>>
  /\ fetchCalls' = <<>>
  /\ response' = NoResponse
  /\ wire' = <<>>
  /\ received' = <<>>
  /\ buffer' = <<>>
  /\ fullText' = <<>>
  /\ done' = FALSE
  /\ splitMidLine' = FALSE
  /\ UNCHANGED <<onChunkCalls, outcome, envApiKey, loadVars, providers,
                 activeProviderId,
                 mode, editingProvider, input, attachedImages, aiMsgId, clock>>

\* handleSendChat after `await streamChatResponse(...)`: catch and finally.
\* The settled call's arguments, transport objects and locals are released;
\* the record of its callbacks and of its outcome is kept until the next call.
AfterStream ==
  /\ pc = "settled"
  /\ isLoading
  /\ messages' = IF outcome.state = "rejected"
                 THEN SetError(messages, aiMsgId, outcome.message)
                 ELSE messages
  /\ isLoading' = FALSE
  /\ pc' = "idle"
  /\ args' = NoArgs
  /\ sdkClients' = 0
  /\ sdkChats' = <<>>
  /\ sdkSent' = <<>>
  /\ chunksReceived' = <<>>
  /\ responseText' = <<>>
  /\ fetchCalls' = <<>>
  /\ response' = NoResponse
  /\ wire' = <<>>
  /\ received' = <<>>
  /\ buffer' = <<>>
  /\ fullText' = <<>>
  /\ done' = FALSE
  /\ splitMidLine' = FALSE
  /\ UNCHANGED <<onChunkCalls, outcome, envApiKey, loadVars, providers,
                 activeProviderId,
                 mode, editingProvider, input, attachedImages, aiMsgId, clock>>

\* the App: the UI handlers and the sends they start; few transport behaviours
NextApp ==
  \/ Mount
  \/ SetInput({<<>>, TextHi})
  \/ HandleFileUpload({"imgA"})
  \/ RemoveAttachedImage
  \/ SetActiveProviderId
  \/ SetMode({"CHAT", "SETTINGS"})
  \/ SetEditingProvider
  \/ EditApiKey({KeyText})
  \/ CancelEdit
  \/ SaveProviderSettings
  \/ HandleSendChat
  \/ AfterStream
  \/ SendMessageStreamResolve
  \/ GeminiTransportError
  \/ GeminiChunk({Some(TextHi)}, 1)
  \/ GeminiStreamEnd
  \/ FetchRespond(AppResponses)
  \/ OpenAITransportError
  \/ ErrorBodyRead
  \/ ReadChunk(TRUE)
  \/ ReadDone

SpecApp == Init /\ [][NextApp]_vars

\* sends only: typing, choosing a provider, entering a key, sending
NextLive ==
  \/ Mount
  \/ SetInput({TextHi})
  \/ SetActiveProviderId
  \/ SetMode({"CHAT"})
  \/ EditApiKey({KeyText})
  \/ SaveProviderSettings
  \/ HandleSendChat
  \/ AfterStream
  \/ SendMessageStreamResolve
  \/ GeminiTransportError
  \/ GeminiChunk({Some(TextHi)}, 1)
  \/ GeminiStreamEnd
  \/ FetchRespond(AppResponses)
  \/ OpenAITransportError
  \/ ErrorBodyRead
  \/ ReadChunk(TRUE)
  \/ ReadDone

\* reader.read() is pending: ReadChunk or ReadDone is enabled
ReadPending == pc = "openai_read"

\* every pending promise of the transport settles, with data, end of stream
\* or (at the transport's choice) an error, and the continuation of
\* handleSendChat runs once streamChatResponse has settled. The condition on
\* the read step is weak fairness written out with its enabling condition.
TransportSettles ==
  /\ WF_vars(SendMessageStreamResolve)
  /\ WF_vars(GeminiChunk({Some(TextHi)}, 1) \/ GeminiStreamEnd)
  /\ WF_vars(FetchRespond(AppResponses))
  /\ WF_vars(ErrorBodyRead)
  /\ (<>[]ReadPending) => ([]<><<ReadChunk(TRUE) \/ ReadDone>>_vars)
  /\ WF_vars(AfterStream)

\* the sends, with no assumption on the transport
SpecSend == Init /\ [][NextLive]_vars

SpecLive == Init /\ [][NextLive]_vars /\ TransportSettles

\* a persisted provider entry
Entry(id, type, key, modelId, isSystem) ==
  [id |-> id, type |-> type, baseUrl |-> Some(UrlDeepseek), apiKey |-> key,
   modelId |-> modelId, isSystem |-> isSystem]

PersistedEntries ==
  {Entry("gemini-pro", "gemini", Some(KeyText), "gemini-3-pro-preview", TRUE),
   Entry("gemini-flash", "openai", Some(KeyText), "gpt", FALSE),
   Entry("deepseek-chat", "openai", Some(KeyText), "deepseek-chat", FALSE),
   Entry("kimi-8k", "openai", Some(<<>>), "moonshot-v1-8k", TRUE),
   Entry("custom-1", "openai", Some(KeyText), "gpt", FALSE),
   Entry("custom-1", "openai", None, "gpt-mini", TRUE)}

StorageItems ==
  {NoItem, CorruptItem} \cup {Stored(l) : l \in SeqsUpTo(PersistedEntries, MaxPersisted)}

InitLoad == Constructed /\ storage \in StorageItems

\* loading, editing and saving the provider list, for any persisted item
NextLoad ==
  \/ Mount
  \/ Reload
  \/ SetMode({"CHAT", "SETTINGS"})
  \/ SetEditingProvider
  \/ EditApiKey({KeyText})
  \/ CancelEdit
  \/ SaveProviderSettings

SpecLoad == InitLoad /\ [][NextLoad]_vars

(* ------------------------------ claims -------------------------------- *)
GeminiCall == pc # "idle" /\ args.provider.type = "gemini"
OpenAICall == pc # "idle" /\ args.provider.type # "gemini"
IsResolved == pc = "settled" /\ outcome.state = "resolved"
IsRejected == pc = "settled" /\ outcome.state = "rejected"

\* the texts of the chunks received so far that carry text
ChunkTextsReceived ==
  LET withText == SelectSeq(chunksReceived, LAMBDA c : c # None /\ c[1] # <<>>)
  IN [i \in 1..Len(withText) |-> withText[i][1]]

TerminatedLines(r) == IF r.open THEN Front(r.lines) ELSE r.lines

PayloadOf(line) == SubSeq(Trim(line), Len(DataPrefix) + 1, Len(Trim(line)))

\* the line is a `data: ` line, not the sentinel, whose payload parses and
\* carries a non-empty choices[0].delta.content
CarriesContent(line) ==
  /\ StartsWith(Trim(line), DataPrefix)
  /\ Trim(line) # DoneLine
  /\ JSONParse(PayloadOf(line)).ok
  /\ ~JSONParse(PayloadOf(line)).isNull
  /\ JSONParse(PayloadOf(line)).content \notin {None, Some(<<>>)}

ContentsOf(lines) ==
  LET carrying == SelectSeq(lines, CarriesContent)
  IN [i \in 1..Len(carrying) |-> JSONParse(PayloadOf(carrying[i])).content[1]]

StreamingOk ==
  /\ OpenAICall
  /\ response.hasBody
  /\ response.status = 200

\* C2: over the newline-terminated lines that carry content, the k-th onChunk
\* call receives the concatenation of the first k contents, there is one call
\* per such line, the call resolves with the concatenation of all of them, and
\* `data: [DONE]` causes no callback, no error and no change.
C2_AdditiveOpenAI ==
  StreamingOk =>
    LET contents == ContentsOf(TerminatedLines(response))
    IN /\ Len(onChunkCalls) <= Len(contents)
       /\ \A k \in 1..Len(onChunkCalls) :
            onChunkCalls[k] = Flatten(SubSeq(contents, 1, k))
       /\ IsResolved =>
            /\ Len(onChunkCalls) = Len(contents)
            /\ outcome.value = Flatten(contents)
       /\ IsRejected => outcome.message = TransportErrorMessage

C2_Witness ==
  /\ StreamingOk
  /\ IsResolved
  /\ response.lines = <<HiLine, DataLine(TextThere), DoneLine>>
  /\ onChunkCalls = <<TextHi, TextHiThere>>
  /\ outcome.value = TextHiThere

\* C3: however the response text is split into reads, the onChunk arguments,
\* the accumulator and the carry-over buffer are those of a single read of the
\* same text, and so is the resolved value.
C3_FragmentationIndependent ==
  (StreamingOk /\ (pc = "openai_read" \/ IsResolved)) =>
    LET one == Feed(<<>>, <<>>, received)
    IN /\ onChunkCalls = one.calls
       /\ fullText = one.fullText
       /\ buffer = one.buffer
       /\ IsResolved =>
            /\ received = BodyText(response)
            /\ outcome.value = one.fullText

C3_Witness ==
  /\ StreamingOk
  /\ IsResolved
  /\ splitMidLine
  /\ onChunkCalls = <<TextHi, TextHiThere>>

\* the text after the last newline of s, and the text up to it
AfterLastNewline(s) == Last(SplitNewline(s))
UpToLastNewline(s) == SubSeq(s, 1, Len(s) - Len(AfterLastNewline(s)))

\* C4: the text received after the last newline is only buffered: the
\* accumulator and the onChunk calls are those of the newline-terminated part
\* of the text received, and at end of stream the unterminated fragment is
\* discarded, so the resolved text does not include its content.
C4_UnterminatedNeverParsed ==
  (StreamingOk /\ (pc = "openai_read" \/ IsResolved)) =>
    LET contents == ContentsOf(Front(SplitNewline(received)))
    IN /\ buffer = AfterLastNewline(received)
       /\ fullText = Flatten(contents)
       /\ Len(onChunkCalls) = Len(contents)
       /\ IsResolved =>
            /\ received = BodyText(response)
            /\ outcome.value = Flatten(ContentsOf(TerminatedLines(response)))

C4_Witness ==
  /\ StreamingOk
  /\ IsResolved
  /\ response.open
  /\ response.lines = <<HiLine, HiLine>>
  /\ buffer = HiLine
  /\ outcome.value = TextHi

\* the line is a `data: ` line, not the sentinel, whose payload does not parse
IsMalformed(line) ==
  /\ StartsWith(Trim(line), DataPrefix)
  /\ Trim(line) # DoneLine
  /\ ~JSONParse(PayloadOf(line)).ok

\* the response without its malformed newline-terminated lines
WithoutMalformed(r) ==
  [r EXCEPT !.lines =
     SelectSeq(TerminatedLines(r), LAMBDA l : ~IsMalformed(l))
       \o (IF r.open THEN <<Last(r.lines)>> ELSE <<>>)]

HasMalformed(r) == \E i \in 1..Len(TerminatedLines(r)) : IsMalformed(r.lines[i])

\* C5: a malformed `data: ` line makes streamOpenAI neither reject nor call
\* onChunk, and the lines after it are reported as if it had been absent.
C5_MalformedLineSkipped ==
  (StreamingOk /\ HasMalformed(response)) =>
    LET clean == Feed(<<>>, <<>>, BodyText(WithoutMalformed(response)))
    IN /\ IsRejected => outcome.message = TransportErrorMessage
       /\ Len(onChunkCalls) <= Len(clean.calls)
       /\ \A k \in 1..Len(onChunkCalls) : onChunkCalls[k] = clean.calls[k]
       /\ IsResolved =>
            /\ onChunkCalls = clean.calls
            /\ outcome.value = clean.fullText

C5_Witness ==
  /\ StreamingOk
  /\ IsResolved
  /\ response.lines = <<BadLine, HiLine>>
  /\ ~response.open
  /\ onChunkCalls = <<TextHi>>
  /\ outcome.value = TextHi


MissingOrEmpty(opt) == opt = None \/ opt = Some(<<>>)

\* C6: a call that reaches streamOpenAI with a provider whose apiKey or
\* baseUrl is missing or empty rejects before any fetch is issued and without
\* any onChunk call.
C6_ConfigErrorBeforeFetch ==
  (OpenAICall /\ (MissingOrEmpty(args.provider.apiKey)
                    \/ MissingOrEmpty(args.provider.baseUrl))) =>
    /\ IsRejected
    /\ outcome.message = ConfigErrorMessage
    /\ fetchCalls = <<>>
    /\ onChunkCalls = <<>>
    /\ response = NoResponse

C6_Witness ==
  /\ OpenAICall
  /\ args.provider.apiKey = Some(KeyText)
  /\ args.provider.baseUrl = None
  /\ IsRejected
  /\ fetchCalls = <<>>

NonSuccess == OpenAICall /\ response # NoResponse /\ ~(response.status \in 200..299)

C8_DispatchExclusive ==
  /\ GeminiCall =>
       /\ fetchCalls = <<>>
       /\ response = NoResponse
       /\ pc \in {"gemini_send", "gemini_stream", "settled"}
       /\ \/ sdkClients = 1 /\ Len(sdkChats) = 1 /\ Len(sdkSent) = 1
          \/ IsRejected /\ outcome.message = ApiKeyMissingMessage
  /\ OpenAICall =>
       /\ sdkClients = 0
       /\ sdkChats = <<>>
       /\ sdkSent = <<>>
       /\ chunksReceived = <<>>
       /\ pc \in {"openai_fetch", "openai_errtext", "openai_read", "settled"}
       /\ \/ Len(fetchCalls) = 1
          \/ IsRejected /\ outcome.message = ConfigErrorMessage

C8_Witness ==
  /\ OpenAICall
  /\ args.provider.type = "custom"
  /\ IsResolved
  /\ Len(fetchCalls) = 1
  /\ sdkClients = 0

ImagesOf(msg) == IF msg.images = None THEN <<>> ELSE msg.images[1]

SendAwaitsFetch == isLoading /\ pc = "openai_fetch" /\ fetchCalls # <<>>

\* C10: the messages array of the POST body of a send through an
\* openai-compatible provider is the system prompt, one {role, content} entry
\* per turn already in the conversation, in order, and the new user message:
\* (number of prior turns) + 2 entries, the new user text only as the last one.
C10_PostBodyMessages ==
  SendAwaitsFetch =>
    LET sent == Last(fetchCalls).body.messages
        prior == SubSeq(messages, 1, Len(messages) - 2)
        newUser == messages[Len(messages) - 1]
    IN /\ Len(sent) = Len(prior) + 2
       /\ sent[1] = [role |-> "system", content |-> OpenAISystemPrompt]
       /\ \A i \in 1..Len(prior) :
            sent[i + 1] =
              [role |-> IF prior[i].role = "model" THEN "assistant" ELSE "user",
               content |-> prior[i].text]
       /\ Last(sent) = [role |-> "user", content |-> newUser.text]

IsProperPrefix(a, b) == Len(a) < Len(b) /\ SubSeq(b, 1, Len(a)) = a

\* the texts received so far that an adapter reports, in receipt order
ReceivedContents ==
  IF GeminiCall THEN ChunkTextsReceived
  ELSE ContentsOf(Front(SplitNewline(received)))

\* what the k-th onChunk argument adds to the one before it
Increment(k) ==
  LET prev == IF k = 1 THEN <<>> ELSE onChunkCalls[k - 1]
  IN SubSeq(onChunkCalls[k], Len(prev) + 1, Len(onChunkCalls[k]))

\* C11: within one call the k-th onChunk argument extends the one before it
\* as a proper prefix (so it never shrinks, for both adapters) by exactly the
\* k-th text received, i.e. callbacks are made in receipt order, and the
\* resolved value is the last onChunk argument, or the empty text when
\* onChunk was never called.
C11_OrderedMonotone ==
  pc # "idle" =>
    /\ \A k \in 2..Len(onChunkCalls) :
         IsProperPrefix(onChunkCalls[k - 1], onChunkCalls[k])
    /\ ~IsRejected =>
         /\ Len(onChunkCalls) <= Len(ReceivedContents)
         /\ \A k \in 1..Len(onChunkCalls) : Increment(k) = ReceivedContents[k]
    /\ IsResolved =>
         outcome.value = (IF onChunkCalls = <<>> THEN <<>> ELSE Last(onChunkCalls))

C11_Witness ==
  /\ StreamingOk
  /\ IsResolved
  /\ response.lines = <<HiLine, HiLine>>
  /\ ~response.open
  /\ onChunkCalls = <<TextHi, TextHi \o TextHi>>
  /\ outcome.value = Last(onChunkCalls)

\* a send started by handleSendChat has not yet reached its finally block
SendInFlight == isLoading /\ pc # "idle"

\* C12: streamChatResponse is never invoked with a provider of type 'openai'
\* together with a non-empty newImages list, and the user turn appended by a
\* send through a provider of type 'openai' carries no images.
C12_NoImagesToOpenAI ==
  (SendInFlight /\ args.provider.type = "openai") =>
    /\ args.newImages = <<>>
    /\ ImagesOf(messages[Len(messages) - 1]) = <<>>

\* C13: a stream is in flight exactly while a send is loading, and while a
\* send is loading no step appends a message, starts a stream (new call
\* arguments, a new SDK client or fetch, a new assistant-message id) or
\* clears the input as a send does (the input changes only by typing).
C13_SendsSerialized ==
  /\ [](isLoading <=> pc # "idle")
  /\ [][isLoading =>
         /\ Len(messages') = Len(messages)
         /\ args' \in {args, NoArgs}
         /\ sdkClients' <= sdkClients
         /\ Len(fetchCalls') <= Len(fetchCalls)
         /\ aiMsgId' = aiMsgId
         /\ clock' = clock
         /\ input' # input => (messages' = messages /\ pc' = pc)]_vars

\* a send is streaming, the user has typed again, and the list still holds
\* only that send's two entries
C13_Witness ==
  /\ isLoading
  /\ pc = "openai_read"
  /\ onChunkCalls # <<>>
  /\ Trim(input) # <<>>
  /\ mode = "CHAT"
  /\ Len(messages) = 2

\* the last send was rejected and its catch and finally blocks have run
SendFailed == ~isLoading /\ pc = "idle" /\ outcome.state = "rejected"

\* C14: after a rejected send the in-progress assistant entry (the last one)
\* is flagged and its text is the error text built from the rejection
\* message, whatever onChunk had written there; after a resolved send it is
\* not flagged; only assistant entries are ever flagged, and no step changes
\* the flag of an entry other than the last.
C14_ErrorReplacesPartial ==
  /\ [](SendFailed =>
          /\ Last(messages).id = aiMsgId
          /\ Last(messages).isError
          /\ Last(messages).text =
               ErrorPrefix \o MessageOr(outcome.message, RequestFailedText))
  /\ []((~isLoading /\ outcome.state = "resolved") => ~Last(messages).isError)
  /\ [](\A i \in 1..Len(messages) :
          messages[i].isError => messages[i].role = Role.MODEL)
  /\ [][\A i \in 1..Len(messages) :
          i # Len(messages) => messages'[i].isError = messages[i].isError]_vars

\* a stream that had already delivered text fails
C14_Witness ==
  /\ SendFailed
  /\ onChunkCalls = <<TextHi>>
  /\ outcome.message = TransportErrorMessage
  /\ Last(messages).isError
  /\ Last(messages).text = ErrorPrefix \o TransportErrorMessage

DefaultIds == {DEFAULT_PROVIDERS[i].id : i \in 1..Len(DEFAULT_PROVIDERS)}

\* the id of the k-th entry occurs once in the list
OccursOnce(list, k) == \A j \in 1..Len(list) : list[j].id = list[k].id => j = k

\* C15: when the initialization effect loads a persisted array, every
\* persisted entry with a non-empty apiKey whose id is the id of a built-in
\* provider, system-managed or not (and is persisted once), finds its apiKey
\* on the merged entry with that id.
C15_KeyCarriedOver ==
  [][(~mounted /\ mounted' /\ storage.kind = "array") =>
       \A k \in 1..Len(storage.items) :
         LET p == storage.items[k]
         IN (Truthy(p.apiKey) /\ p.id \in DefaultIds
               /\ OccursOnce(storage.items, k)) =>
              providers'[FindIndex(providers', p.id)].apiKey = p.apiKey]_vars

\* C16: a send that has set isLoading leads to streamChatResponse settled,
\* resolved or rejected, and then to isLoading false with no call in flight,
\* where handleSendChat accepts a send again; the read that reports done
\* settles the call.
C16_SendCompletes ==
  /\ isLoading ~> (pc = "settled" /\ outcome.state \in {"resolved", "rejected"})
  /\ isLoading ~> (~isLoading /\ pc = "idle")
  /\ [](done => pc = "settled")

\* a send failed, a further send was made and completed
C16_Witness ==
  /\ ~isLoading
  /\ pc = "idle"
  /\ Len(messages) = 4
  /\ messages[2].isError
  /\ ~messages[4].isError
  /\ messages[4].text = TextHi
  /\ outcome.state = "resolved"

\* C17: no step shortens or reorders the message list, and a step changes an
\* existing entry only if it is the last one, a send is loading, the entry is
\* the assistant entry with that send's aiMsgId, and nothing but its text and
\* isError differ; every other entry keeps every field.
C17_OnlyAssistantMutable ==
  [][/\ Len(messages') >= Len(messages)
     /\ \A i \in 1..Len(messages) :
          messages'[i] # messages[i] =>
            /\ i = Len(messages)
            /\ isLoading
            /\ messages[i].id = aiMsgId
            /\ messages[i].role = Role.MODEL
            /\ [messages'[i] EXCEPT !.text = messages[i].text,
                                    !.isError = messages[i].isError]
                 = messages[i]]_vars

\* the second send streams and then fails after the first one completed; the
\* first assistant turn, whose id the second user turn shares, keeps its text
C17_Witness ==
  /\ Len(messages) = 4
  /\ ~isLoading
  /\ messages[2].text = TextHi
  /\ ~messages[2].isError
  /\ messages[3].id = messages[2].id
  /\ messages[3].text = TextHi
  /\ messages[4].isError
  /\ onChunkCalls = <<TextHi>>

====
